---- MODULE Spec2Model ----
(***************************************************************************)
(* Wallet activity monitor of polybot.                                     *)
(*                                                                         *)
(* main.py: main() starts one monitor_user_trades task per configured      *)
(* wallet on one asyncio event loop and awaits asyncio.gather over them.   *)
(* Each task polls the activity feed (get_user_activity), filters the      *)
(* fetched records against its watermark last_check_timestamp, sends one   *)
(* Telegram message per record it kept, commits the watermark and sleeps.  *)
(*                                                                         *)
(* The HTTP endpoints are the environment: a fetch either fails (the       *)
(* function returns []) or yields a JSON list of activity records; a       *)
(* send either succeeds or fails.  Of a record only the timestamp is       *)
(* modelled: a JSON integer, a JSON string, or absent/null.  The other     *)
(* fields (size, price, name, ...) are taken to be well formed.            *)
(* Line 264 of main.py is indented with tabs; it is read as one more       *)
(* statement of the block that builds the message (lines 260-269).         *)
(*                                                                         *)
(* get_specific_activity.py: main() resolves the configured tags to        *)
(* markets (get_markets_by_tags), keeps their condition ids as a filter    *)
(* list and runs one monitor_user_trades loop, which reads the clock,      *)
(* fetches the wallet's activity filtered by that list, lists the records  *)
(* newer than its watermark in one Telegram message, sets the watermark    *)
(* to the clock reading and sleeps.  The clock counts seconds and does     *)
(* not run backwards.                                                      *)
(***************************************************************************)
EXTENDS Integers, Sequences, FiniteSets, TLC

\* ------------------------------------------------------------------ bounds
\* Largest integer timestamp the feed delivers.
MaxTs == 2
\* Largest number of records in one response of the activity endpoint.
MaxFetch == 2

\* Largest number of records in one input of change detection on its own.
MaxDetectLen == 3
\* Largest number of activities that occur on one wallet's feed.
MaxFeed == 3
\* Last second of the clock of get_specific_activity.py.
MaxClock == 3
\* Largest number of markets the markets endpoint returns for one tag.
MaxMarkets == 2

\* ------------------------------------------------------- program constants
\* main(): the wallets list holds two addresses.
NumWallets == 2
\* get_user_activity: params["limit"].
Limit == 1

Wallets == 1..NumWallets

\* No task is running: the event loop is idle (all tasks suspended or done).
NoTask == 0

\* ------------------------------------------------------------- JSON values
\* activity.get('timestamp'): a JSON integer, a JSON string or None.
IntTs(n) == [k |-> "int", n |-> n, s |-> <<>>]
StrTs(s) == [k |-> "str", n |-> 0, s |-> s]
NoTs == [k |-> "none", n |-> 0, s |-> <<>>]

Digits == <<"0", "1", "2", "3", "4", "5", "6", "7", "8", "9">>

DigitVal(c) == (CHOOSE i \in 1..10 : Digits[i] = c) - 1

\* int(str) succeeds: the string is a non-empty run of decimal digits.
\* (Python also accepts a sign, surrounding blanks and underscores; the
\* sampled strings hold none.)
IsIntLiteral(s) ==
    /\ Len(s) > 0
    /\ \A i \in 1..Len(s) : \E d \in 1..10 : Digits[d] = s[i]

RECURSIVE ParseInt(_)
\* int(str) of an integer literal: its decimal value.
ParseInt(s) ==
    IF s = <<>> THEN 0
    ELSE 10 * ParseInt(SubSeq(s, 1, Len(s) - 1)) + DigitVal(s[Len(s)])

\* Python truth value of activity.get('timestamp') (`if activity_timestamp:`).
Truthy(t) ==
    CASE t.k = "none" -> FALSE
      [] t.k = "int" -> t.n # 0
      [] t.k = "str" -> t.s # <<>>

\* int(activity.get('timestamp')) of an integer or of an integer literal.
TsInt(t) == IF t.k = "str" THEN ParseInt(t.s) ELSE t.n

\* JSON strings sampled as timestamps: one that is not a number, one that is.
StrSamples == {<<"x">>, <<"2">>}

TsValues ==
    {IntTs(n) : n \in 0..MaxTs} \cup {StrTs(s) : s \in StrSamples} \cup {NoTs}

\* An activity record as the loop reads it.
Activities == [timestamp : TsValues]

Range(q) == {q[i] : i \in 1..Len(q)}

RECURSIVE SeqsUpTo(_, _)
\* Sequences of at most n distinct elements of S.
SeqsUpTo(S, n) ==
    IF n = 0 THEN {<<>>}
    ELSE LET shorter == SeqsUpTo(S, n - 1)
         IN  shorter \cup
             UNION {{Append(q, x) : x \in S \ Range(q)} :
                    q \in {p \in shorter : Len(p) = n - 1}}

\* What the activity endpoint may answer: a list of distinct records.
Responses == SeqsUpTo(Activities, MaxFetch)

\* Outcome of requests.get + raise_for_status + json in get_user_activity.
FetchOutcomes ==
    {[ok |-> FALSE, body |-> <<>>]} \cup {[ok |-> TRUE, body |-> b] : b \in Responses}

\* get_user_activity: the decoded list, or [] on a RequestException.
GetUserActivity(o) == IF o.ok THEN o.body ELSE <<>>

\* --------------------------------------------------------- change detection
\* The threshold test of the filter loop (main.py line 217).
IsNewer(ts, W) == ts # W

\* One pass of the filter loop body (lines 209-222): the record is kept.
Keeps(W, r) ==
    LET t == r.timestamp
    IN  /\ Truthy(t)
        /\ IF t.k = "str"
           THEN IsIntLiteral(t.s) /\ IsNewer(ParseInt(t.s), W)
           ELSE IsNewer(t.n, W)

\* new_activities after the filter loop (lines 207-222).
FilterNew(W, R) == SelectSeq(R, LAMBDA r : Keeps(W, r))

\* Variant of TrackLatest: the timestamp of the record at hand is taken
\* without comparing it to the latest one so far.
TrackLatestLast(latest, ts) == ts

\* Variant of TrackLatest: the timestamp of the record is never taken.
TrackLatestStale(latest, ts) == latest

\* Lines 251-252: track the latest timestamp.
TrackLatest(latest, ts) == IF ts > latest THEN ts ELSE latest

\* Variant of LoopDone: the loop is left after its first pass.
LoopDoneEarly(new, i) == i >= 1

\* The for loop over new_activities (line 230) is exhausted after i records.
LoopDone(new, i) == i >= Len(new)

\* Variant of SendTelegramMessage: the RequestException is not caught.
SendTelegramMessageRaises(delivered) == [raised |-> ~delivered, value |-> delivered]

\* send_telegram_message (lines 158-169): a RequestException is caught and
\* turned into False; nothing is raised to the caller.
SendTelegramMessage(delivered) == [raised |-> FALSE, value |-> delivered]

\* ------------------------------------------------------------------- state
VARIABLES
    main_state,                 \* main(): "gather", "failed" or "interrupted"
    running,                    \* the task the event loop is executing, or NoTask
    pc,                         \* per wallet: where its task stands
    last_check_timestamp,       \* per wallet: the watermark (line 194)
    activities,                 \* per wallet: the list fetched in this cycle
    new_activities,             \* per wallet: the records kept by the filter
    idx,                        \* per wallet: records of new_activities processed
    latest_activity_timestamp,  \* per wallet: line 228
    activity_name_bound,        \* per wallet: local activity_name is bound
    attempted,                  \* per wallet: records handed to the notifier this cycle
    failures,                   \* per wallet: sends of this cycle that returned False
    notified,                   \* per wallet: records handed to the notifier in earlier cycles
    feed,                       \* per wallet: the activity the endpoint holds, oldest first
    backlog,                    \* per wallet: length of feed when the task started
    det_phase,                  \* change detection on its own: "off", "input", "done"
    det_W,                      \* its watermark
    det_R,                      \* its fetched list
    det_new,                    \* the records it kept
    det_next,                   \* the watermark it would commit
    now,                        \* get_specific_activity.py: time.time(), in seconds
    g_pc,                       \* its loop: "start", "clock", "fetch", "notify", "sleep",
                                \*   "dead", "cancelled"
    g_start,                    \* the clock reading at which the monitor started
    g_activities,               \* the list fetched in this cycle
    g_delivered,                \* the send of the last cycle: "none", "ok" or "failed"
    g_last_check_timestamp,     \* its watermark (line 148)
    g_current_timestamp,        \* the clock reading of the cycle (line 151)
    g_feed,                     \* the wallet's activity at the endpoint, oldest first
    g_message,                  \* records listed in the notification of the last cycle
    g_notified,                 \* records listed in notifications of earlier cycles
    tag_ids,                    \* get_specific_activity.py main(): the tags to resolve
    rs_pc,                      \* its start-up: "off", "tags", "fetch", "done"
    rs_i,                       \* get_markets_by_tags: tags the for loop has passed
    rs_outcomes,                \* the outcome of the request of each tag queried
    all_markets,                \* get_markets_by_tags: all_markets
    market_condition_ids,       \* main(): the filter list (line 250)
    rs_fetch,                   \* outcome of the request of get_user_activity
    rs_out                      \* what get_user_activity returned

\* The endpoint's side of the activity feed.
envvars == <<feed, backlog>>

\* Change detection applied to one input.
detvars == <<det_phase, det_W, det_R, det_new, det_next>>

\* The monitor of get_specific_activity.py.
gsavars ==
    <<now, g_pc, g_start, g_activities, g_delivered, g_last_check_timestamp,
      g_current_timestamp, g_feed, g_message, g_notified>>

\* Tag resolution and the filtered fetch of get_specific_activity.py.
rsvars ==
    <<tag_ids, rs_pc, rs_i, rs_outcomes, all_markets, market_condition_ids,
      rs_fetch, rs_out>>

vars ==
    <<main_state, running, pc, last_check_timestamp, activities, new_activities,
      idx, latest_activity_timestamp, activity_name_bound, attempted, failures,
      notified, feed, backlog, det_phase, det_W, det_R, det_new, det_next,
      now, g_pc, g_start, g_activities, g_delivered, g_last_check_timestamp,
      g_current_timestamp, g_feed, g_message, g_notified, tag_ids, rs_pc, rs_i, rs_outcomes, all_markets,
      market_condition_ids, rs_fetch, rs_out>>

\* pc values: "start" (task created, not yet run), "poll" (at line 197),
\* "notify" (inside the for loop of line 230), "commit" (at line 273),
\* "sleep" (suspended in asyncio.sleep, line 282), "dead" (the coroutine
\* raised), "cancelled" (the task was cancelled).
Live == {"start", "poll", "notify", "commit", "sleep"}

InitCommon ==
    /\ main_state = "gather"
    /\ running = NoTask
    /\ pc = [w \in Wallets |-> "start"]
    /\ last_check_timestamp = [w \in Wallets |-> 0]
    /\ activities = [w \in Wallets |-> <<>>]
    /\ new_activities = [w \in Wallets |-> <<>>]
    /\ idx = [w \in Wallets |-> 0]
    /\ latest_activity_timestamp = [w \in Wallets |-> 0]
    /\ activity_name_bound = [w \in Wallets |-> FALSE]
    /\ attempted = [w \in Wallets |-> <<>>]
    /\ failures = [w \in Wallets |-> 0]
    /\ notified = [w \in Wallets |-> {}]
    /\ feed = [w \in Wallets |-> <<>>]
    /\ backlog = [w \in Wallets |-> 0]

DetectOff ==
    /\ det_phase = "off"
    /\ det_W = 0
    /\ det_R = <<>>
    /\ det_new = <<>>
    /\ det_next = 0

\* get_specific_activity.py before its monitor is started.
GsaInit ==
    /\ now = 0
    /\ g_pc = "start"
    /\ g_start = 0
    /\ g_activities = <<>>
    /\ g_delivered = "none"
    /\ g_last_check_timestamp = 0
    /\ g_current_timestamp = 0
    /\ g_feed = <<>>
    /\ g_message = <<>>
    /\ g_notified = {}

\* Tag resolution not under study.
ResolveOff ==
    /\ tag_ids = <<>>
    /\ rs_pc = "off"
    /\ rs_i = 0
    /\ rs_outcomes = <<>>
    /\ all_markets = <<>>
    /\ market_condition_ids = <<>>
    /\ rs_fetch = [ok |-> FALSE, body |-> <<>>]
    /\ rs_out = <<>>

Init == InitCommon /\ DetectOff /\ GsaInit /\ ResolveOff

\* The per-cycle locals are dead once the cycle is over: they are written
\* again before they are read (lines 202, 207, 228).
ClearCycle(w) ==
    /\ activities' = [activities EXCEPT ![w] = <<>>]
    /\ new_activities' = [new_activities EXCEPT ![w] = <<>>]
    /\ idx' = [idx EXCEPT ![w] = 0]
    /\ latest_activity_timestamp' = [latest_activity_timestamp EXCEPT ![w] = 0]
    /\ attempted' = [attempted EXCEPT ![w] = <<>>]
    /\ failures' = [failures EXCEPT ![w] = 0]

\* The coroutine reaches `await asyncio.sleep(interval)` (line 282).
GoSleep(w) ==
    /\ pc' = [pc EXCEPT ![w] = "sleep"]
    /\ running' = NoTask
    /\ ClearCycle(w)

\* An exception escapes the coroutine: the task is done with that exception.
Die(w) ==
    /\ pc' = [pc EXCEPT ![w] = "dead"]
    /\ running' = NoTask

\* The event loop runs a task for the first time (lines 185-194); tasks are
\* started in the order main() created them (lines 310-320).
Start(w) ==
    /\ main_state = "gather"
    /\ running = NoTask
    /\ pc[w] = "start"
    /\ \A v \in Wallets : v < w => pc[v] # "start"
    /\ pc' = [pc EXCEPT ![w] = "poll"]
    /\ running' = w
    /\ last_check_timestamp' = [last_check_timestamp EXCEPT ![w] = 0]
    /\ backlog' = [backlog EXCEPT ![w] = Len(feed[w])]
    /\ UNCHANGED <<main_state, activities, new_activities, idx,
                   latest_activity_timestamp, activity_name_bound, attempted,
                   failures, notified, feed, detvars, gsavars, rsvars>>

\* Lines 197-228 and 276-279 with the fetched list R: filter, then either
\* enter the notify loop or print the "no activities" line and go to sleep.
\* The two "no activities" prints read activity_name, which is assigned only
\* inside the notify loop (line 232): unbound, it raises UnboundLocalError.
PollStep(w, R) ==
    LET new == FilterNew(last_check_timestamp[w], R)
    IN  /\ running = w
        /\ pc[w] = "poll"
        /\ IF R # <<>> /\ new # <<>>
           THEN /\ pc' = [pc EXCEPT ![w] = "notify"]
                /\ activities' = [activities EXCEPT ![w] = R]
                /\ new_activities' = [new_activities EXCEPT ![w] = new]
                /\ idx' = [idx EXCEPT ![w] = 0]
                /\ latest_activity_timestamp' =
                       [latest_activity_timestamp EXCEPT ![w] = last_check_timestamp[w]]
                /\ attempted' = [attempted EXCEPT ![w] = <<>>]
                /\ failures' = [failures EXCEPT ![w] = 0]
                /\ UNCHANGED running
           ELSE IF activity_name_bound[w]
                THEN GoSleep(w)
                ELSE /\ Die(w)
                     /\ activities' = [activities EXCEPT ![w] = R]
                     /\ UNCHANGED <<new_activities, idx, latest_activity_timestamp,
                                    attempted, failures>>
        /\ UNCHANGED <<main_state, last_check_timestamp, activity_name_bound,
                       notified, envvars, detvars, gsavars, rsvars>>

\* One polling cycle begins: get_user_activity answers (line 202).
Poll(w) == \E o \in FetchOutcomes : PollStep(w, GetUserActivity(o))

\* One pass of the notify loop (lines 230-270) over new_activities[idx + 1].
Notify(w) ==
    /\ running = w
    /\ pc[w] = "notify"
    /\ ~LoopDone(new_activities[w], idx[w])
    /\ \E delivered \in BOOLEAN :
          LET activity == new_activities[w][idx[w] + 1]
              sent == SendTelegramMessage(delivered)
          IN  /\ activity_name_bound' = [activity_name_bound EXCEPT ![w] = TRUE]
              /\ latest_activity_timestamp' =
                     [latest_activity_timestamp EXCEPT ![w] =
                         TrackLatest(@, TsInt(activity.timestamp))]
              /\ attempted' = [attempted EXCEPT ![w] = Append(@, activity)]
              /\ IF sent.raised
                 THEN /\ Die(w)
                      /\ UNCHANGED <<idx, failures>>
                 ELSE /\ idx' = [idx EXCEPT ![w] = @ + 1]
                      /\ failures' = [failures EXCEPT ![w] = IF sent.value THEN @ ELSE @ + 1]
                      /\ UNCHANGED <<pc, running>>
    /\ UNCHANGED <<main_state, last_check_timestamp, activities, new_activities,
                   notified, envvars, detvars, gsavars, rsvars>>

\* Variant of CommitWatermark: one watermark shared by all wallet tasks.
CommitWatermarkShared(w, latest) == [v \in Wallets |-> latest]

\* Line 274: the watermark of wallet w becomes latest.
CommitWatermark(w, latest) == [last_check_timestamp EXCEPT ![w] = latest]

\* The notify loop is over: lines 273-274, then the sleep of line 282.
Commit(w) ==
    /\ running = w
    /\ pc[w] = "notify"
    /\ LoopDone(new_activities[w], idx[w])
    /\ last_check_timestamp' = CommitWatermark(w, latest_activity_timestamp[w])
    /\ notified' = [notified EXCEPT ![w] = @ \cup Range(attempted[w])]
    /\ GoSleep(w)
    /\ UNCHANGED <<main_state, activity_name_bound, envvars, detvars, gsavars, rsvars>>

\* Variant of Wake: the sleeper is resumed whether or not another task is
\* in the middle of its cycle, as a preemptive scheduler would.
WakePreemptive(w) ==
    /\ main_state = "gather"
    /\ pc[w] = "sleep"
    /\ pc' = [pc EXCEPT ![w] = "poll"]
    /\ running' = w
    /\ UNCHANGED <<main_state, last_check_timestamp, activities, new_activities,
                   idx, latest_activity_timestamp, activity_name_bound, attempted,
                   failures, notified, envvars, detvars, gsavars, rsvars>>

\* asyncio.sleep(interval) is over: the loop body starts again (line 197).
Wake(w) ==
    /\ main_state = "gather"
    /\ running = NoTask
    /\ pc[w] = "sleep"
    /\ pc' = [pc EXCEPT ![w] = "poll"]
    /\ running' = w
    /\ UNCHANGED <<main_state, last_check_timestamp, activities, new_activities,
                   idx, latest_activity_timestamp, activity_name_bound, attempted,
                   failures, notified, envvars, detvars, gsavars, rsvars>>

\* asyncio.run cancels every task that is not done.
CancelAll == [w \in Wallets |-> IF pc[w] \in Live THEN "cancelled" ELSE pc[w]]

\* gather (line 323) sees a task that raised: the exception is raised in
\* main(), asyncio.run cancels the remaining tasks and re-raises
\* (lines 331-333).  Every task has had its first run by then: the tasks
\* were queued before the callback of the failed one.  The other tasks may
\* run any number of cycles before this step, which includes the schedules
\* of the event loop (where the step follows within one pass of the ready
\* queue).
GatherFail ==
    /\ main_state = "gather"
    /\ running = NoTask
    /\ \E w \in Wallets : pc[w] = "dead"
    /\ \A w \in Wallets : pc[w] # "start"
    /\ main_state' = "failed"
    /\ pc' = CancelAll
    /\ UNCHANGED <<running, last_check_timestamp, activities, new_activities, idx,
                   latest_activity_timestamp, activity_name_bound, attempted,
                   failures, notified, envvars, detvars, gsavars, rsvars>>

\* KeyboardInterrupt while the event loop waits: asyncio.run cancels every
\* task and the interrupt is caught at lines 329-330.
Interrupt ==
    /\ main_state = "gather"
    /\ running = NoTask
    /\ main_state' = "interrupted"
    /\ pc' = CancelAll
    /\ UNCHANGED <<running, last_check_timestamp, activities, new_activities, idx,
                   latest_activity_timestamp, activity_name_bound, attempted,
                   failures, notified, envvars, detvars, gsavars, rsvars>>

Next ==
    \/ \E w \in Wallets : Start(w)
    \/ \E w \in Wallets : Poll(w)
    \/ \E w \in Wallets : Notify(w)
    \/ \E w \in Wallets : Commit(w)
    \/ \E w \in Wallets : Wake(w)
    \/ GatherFail
    \/ Interrupt

Spec == Init /\ [][Next]_vars

\* Answers of get_user_activity sampled for the outcome of the run: a
\* failed or empty fetch, one record with a timestamp of 1 or of 2, and
\* one record whose timestamp is no number.
RunResponses ==
    {<<>>, <<[timestamp |-> IntTs(1)]>>, <<[timestamp |-> IntTs(2)]>>,
     <<[timestamp |-> StrTs(<<"x">>)]>>}

\* One polling cycle begins with one of the sampled answers (line 202).
RunPoll(w) == \E R \in RunResponses : PollStep(w, R)

\* What wallet w's task does by itself.
LoopStep(w) == Start(w) \/ RunPoll(w) \/ Notify(w) \/ Commit(w) \/ Wake(w)

NextRun ==
    \/ \E w \in Wallets : Start(w)
    \/ \E w \in Wallets : RunPoll(w)
    \/ \E w \in Wallets : Notify(w)
    \/ \E w \in Wallets : Commit(w)
    \/ \E w \in Wallets : Wake(w)
    \/ GatherFail
    \/ Interrupt

\* The run of main.py on an event loop that serves its ready queue in
\* order: a task that is ready again and again is run, every sleep ends,
\* and a failed gather is raised in main().  The interrupt may never come.
SpecRun ==
    /\ Init
    /\ [][NextRun]_vars
    /\ \A w \in Wallets : SF_vars(LoopStep(w))
    /\ SF_vars(GatherFail)

\* Variant of ExitCode: the top level prints the fatal error and does not
\* raise it again.
ExitCodeSwallowed(outcome) == 0

\* The exit status of the process (lines 326-333): 0 when the
\* KeyboardInterrupt is caught and the script runs off its end, 1 when the
\* exception is raised again out of the script.
ExitCode(outcome) == IF outcome = "interrupted" THEN 0 ELSE 1

\* ------------------------------------------ change detection on its own
\* Timestamps tried on the filter: integers up to one past MaxTs, the
\* empty string, a string that is no number, "0" and "3", and none.
DetectTsValues ==
    {IntTs(n) : n \in 0..(MaxTs + 1)}
        \cup {StrTs(s) : s \in {<<>>, <<"x">>, <<"0">>, <<"3">>}} \cup {NoTs}

DetectRecords == [timestamp : DetectTsValues]

RECURSIVE AllSeqs(_, _)
\* Sequences of at most n elements of S.
AllSeqs(S, n) ==
    IF n = 0 THEN {<<>>}
    ELSE LET shorter == AllSeqs(S, n - 1)
         IN  shorter \cup {Append(q, x) : q \in {p \in shorter : Len(p) = n - 1}, x \in S}

RECURSIVE LatestOf(_, _)
\* latest_activity_timestamp after the notify loop over new (lines 228-252).
LatestOf(latest, new) ==
    IF new = <<>> THEN latest
    ELSE LatestOf(TrackLatest(latest, TsInt(new[1].timestamp)), Tail(new))

InitDetect ==
    /\ InitCommon
    /\ GsaInit
    /\ ResolveOff
    /\ det_phase = "input"
    /\ det_W \in 0..MaxTs
    /\ det_R \in AllSeqs(DetectRecords, MaxDetectLen)
    /\ det_new = <<>>
    /\ det_next = 0

\* The filter loop and the watermark of one cycle (lines 204-228, 251-252,
\* 274) applied to the watermark det_W and the fetched list det_R.
Detect ==
    /\ det_phase = "input"
    /\ det_phase' = "done"
    /\ det_new' = FilterNew(det_W, det_R)
    /\ det_next' = LatestOf(det_W, FilterNew(det_W, det_R))
    /\ UNCHANGED <<det_W, det_R, main_state, running, pc, last_check_timestamp,
                   activities, new_activities, idx, latest_activity_timestamp,
                   activity_name_bound, attempted, failures, notified, envvars,
                   gsavars, rsvars>>

NextDetect == Detect

SpecDetect == InitDetect /\ [][NextDetect]_vars

\* ------------------------------------------------- the feed as the endpoint
\* An activity on a wallet's feed: its position in the feed and its time.
FeedRecord(i, t) == [id |-> i, timestamp |-> IntTs(t)]

Min(a, b) == IF a <= b THEN a ELSE b

\* The answers the endpoint may give to limit=n, sortBy=TIMESTAMP,
\* sortDirection=DESC over the feed f: the n most recent records, most
\* recent first (records of equal time in either order).
ServerTop(f, n) ==
    {q \in SeqsUpTo(Range(f), Min(n, Len(f))) :
        /\ Len(q) = Min(n, Len(f))
        /\ \A i \in 1..Len(q) : \A j \in 1..Len(q) :
              i < j => TsInt(q[i].timestamp) >= TsInt(q[j].timestamp)
        /\ \A r \in Range(f) \ Range(q) : \A i \in 1..Len(q) :
              TsInt(r.timestamp) <= TsInt(q[i].timestamp)}

\* An activity occurs on wallet w; the feed's clock never runs backwards.
Occur(w) ==
    /\ main_state = "gather"
    /\ running = NoTask
    /\ Len(feed[w]) < MaxFeed
    /\ \E t \in 1..MaxTs :
          /\ Len(feed[w]) > 0 => t >= TsInt(feed[w][Len(feed[w])].timestamp)
          /\ feed' = [feed EXCEPT ![w] = Append(@, FeedRecord(Len(@) + 1, t))]
    /\ UNCHANGED <<main_state, running, pc, last_check_timestamp, activities,
                   new_activities, idx, latest_activity_timestamp,
                   activity_name_bound, attempted, failures, notified, backlog,
                   detvars, gsavars, rsvars>>

\* One polling cycle begins; the fetch succeeds and the endpoint answers
\* the request as get_user_activity wrote it (lines 120-125).
FeedPoll(w) == \E R \in ServerTop(feed[w], Limit) : PollStep(w, R)

\* What wallet w's task does by itself.
TaskStep(w) == Start(w) \/ FeedPoll(w) \/ Notify(w) \/ Commit(w) \/ Wake(w)

NextFeed ==
    \/ \E w \in Wallets : Start(w)
    \/ \E w \in Wallets : FeedPoll(w)
    \/ \E w \in Wallets : Notify(w)
    \/ \E w \in Wallets : Commit(w)
    \/ \E w \in Wallets : Wake(w)
    \/ \E w \in Wallets : Occur(w)
    \/ GatherFail

\* The event loop serves its ready queue in order: a task that is ready
\* again and again is run, every sleep ends, and a failed gather is raised
\* in main().  Nothing is assumed of the feed.
SpecFeed ==
    /\ Init
    /\ [][NextFeed]_vars
    /\ \A w \in Wallets : SF_vars(TaskStep(w))
    /\ SF_vars(GatherFail)

\* --------------------------------------------- get_specific_activity.py
\* The variables of main.py's monitor.
mainvars ==
    <<main_state, running, pc, last_check_timestamp, activities, new_activities,
      idx, latest_activity_timestamp, activity_name_bound, attempted, failures,
      notified, envvars, detvars>>

\* Variant of GsaIsNewer: a timestamp equal to the watermark passes.
GsaIsNewerOrEqual(ts, W) == ts >= W

\* The threshold test of its filter loop (line 170).
GsaIsNewer(ts, W) == ts > W

\* One pass of its filter loop body (lines 162-174): the record is kept.
GsaKeeps(W, r) ==
    LET t == r.timestamp
    IN  /\ Truthy(t)
        /\ IF t.k = "str"
           THEN IsIntLiteral(t.s) /\ GsaIsNewer(ParseInt(t.s), W)
           ELSE GsaIsNewer(t.n, W)

\* new_activities after its filter loop (lines 160-174).
GsaFilterNew(W, R) == SelectSeq(R, LAMBDA r : GsaKeeps(W, r))

\* Its filter loop (lines 158-174) applied to the watermark det_W and the
\* fetched list det_R.
GsaDetect ==
    /\ det_phase = "input"
    /\ det_phase' = "gsa_done"
    /\ det_new' = GsaFilterNew(det_W, det_R)
    /\ UNCHANGED <<det_W, det_R, det_next, main_state, running, pc,
                   last_check_timestamp, activities, new_activities, idx,
                   latest_activity_timestamp, activity_name_bound, attempted,
                   failures, notified, envvars, gsavars, rsvars>>

NextGsaDetect == GsaDetect

SpecGsaDetect == InitDetect /\ [][NextGsaDetect]_vars

\* Variant of GsaSendTelegramMessage: the RequestException is not caught.
GsaSendTelegramMessageRaises(delivered) == [raised |-> ~delivered, value |-> delivered]

\* send_telegram_message of get_specific_activity.py (lines 114-125): a
\* RequestException is caught and turned into False.
GsaSendTelegramMessage(delivered) == [raised |-> FALSE, value |-> delivered]

\* Variant of GsaInitialWatermark: the watermark starts at 0.
GsaInitialWatermarkZero(t) == 0

\* Line 148: the watermark starts at the clock reading t.
GsaInitialWatermark(t) == t

\* A second of wall-clock time passes.
Tick ==
    /\ now < MaxClock
    /\ now' = now + 1
    /\ UNCHANGED <<g_pc, g_start, g_activities, g_delivered, g_last_check_timestamp,
                   g_current_timestamp, g_feed, g_message, g_notified, mainvars,
                   rsvars>>

\* An activity occurs on the wallet, stamped with the current second.
GsaOccur ==
    /\ Len(g_feed) < MaxFeed
    /\ g_feed' = Append(g_feed, FeedRecord(Len(g_feed) + 1, now))
    /\ UNCHANGED <<now, g_pc, g_start, g_activities, g_delivered,
                   g_last_check_timestamp, g_current_timestamp, g_message,
                   g_notified, mainvars, rsvars>>

\* monitor_user_trades is entered: the watermark is the start time (line 148).
GsaStart ==
    /\ g_pc = "start"
    /\ g_pc' = "clock"
    /\ g_start' = now
    /\ g_last_check_timestamp' = GsaInitialWatermark(now)
    /\ UNCHANGED <<now, g_activities, g_delivered, g_current_timestamp, g_feed,
                   g_message, g_notified, mainvars, rsvars>>

\* Line 151: the cycle reads the clock.
GsaReadClock ==
    /\ g_pc = "clock"
    /\ g_pc' = "fetch"
    /\ g_current_timestamp' = now
    /\ UNCHANGED <<now, g_start, g_activities, g_delivered, g_last_check_timestamp,
                   g_feed, g_message, g_notified, mainvars, rsvars>>

\* The cycle is over (lines 228-231) with the records of `listed` in its
\* notification: the watermark becomes the clock reading of line 151 and
\* the loop sleeps.
GsaEndCycle(listed, delivered) ==
    /\ g_pc' = "sleep"
    /\ g_message' = listed
    /\ g_notified' = g_notified \cup Range(g_message)
    /\ g_delivered' = delivered
    /\ g_last_check_timestamp' = g_current_timestamp

\* Lines 156-158 and 224-225 with the fetched list R: an empty list goes
\* straight to the end of the cycle, any other into the branch of line 158.
GsaPoll(R) ==
    /\ g_pc = "fetch"
    /\ g_activities' = R
    /\ IF R = <<>>
       THEN GsaEndCycle(<<>>, "none")
       ELSE /\ g_pc' = "notify"
            /\ UNCHANGED <<g_message, g_notified, g_delivered,
                           g_last_check_timestamp>>
    /\ UNCHANGED <<now, g_start, g_current_timestamp, g_feed, mainvars, rsvars>>

\* get_user_activity (lines 77-92) answers: the wallet's activity, or []
\* on a RequestException.
GsaFetch == \E ok \in BOOLEAN : GsaPoll(IF ok THEN g_feed ELSE <<>>)

\* Answers of get_user_activity sampled for the course of a cycle: a
\* failed or empty fetch, one record with a timestamp of 1, a record whose
\* timestamp is no number followed by one with a timestamp of 2, and a
\* record without a timestamp.
GsaLoopResponses ==
    {<<>>, <<[timestamp |-> IntTs(1)]>>,
     <<[timestamp |-> StrTs(<<"x">>)], [timestamp |-> IntTs(2)]>>,
     <<[timestamp |-> NoTs]>>}

\* get_user_activity returns one of the sampled answers (line 156).
GsaFetchAny == \E R \in GsaLoopResponses : GsaPoll(R)

\* Lines 159-223: the filter loop, and for a non-empty new_activities the
\* one message that lists them and its send, whose result is discarded
\* (line 221).
GsaNotify ==
    /\ g_pc = "notify"
    /\ LET new == GsaFilterNew(g_last_check_timestamp, g_activities)
       IN  IF new = <<>>
           THEN GsaEndCycle(<<>>, "none")
           ELSE \E delivered \in BOOLEAN :
                   LET sent == GsaSendTelegramMessage(delivered)
                   IN  IF sent.raised
                       THEN /\ g_pc' = "dead"
                            /\ g_message' = new
                            /\ g_notified' = g_notified \cup Range(g_message)
                            /\ UNCHANGED <<g_delivered, g_last_check_timestamp>>
                       ELSE GsaEndCycle(new, IF sent.value THEN "ok" ELSE "failed")
    /\ UNCHANGED <<now, g_start, g_activities, g_current_timestamp, g_feed,
                   mainvars, rsvars>>

\* asyncio.sleep(interval) is over (line 231).
GsaWake ==
    /\ g_pc = "sleep"
    /\ g_pc' = "clock"
    /\ UNCHANGED <<now, g_start, g_activities, g_delivered, g_last_check_timestamp,
                   g_current_timestamp, g_feed, g_message, g_notified, mainvars,
                   rsvars>>

\* KeyboardInterrupt: asyncio.run cancels the monitor, before its first
\* step or at its sleep (lines 276-278).
GsaInterrupt ==
    /\ g_pc \in {"start", "sleep"}
    /\ g_pc' = "cancelled"
    /\ UNCHANGED <<now, g_start, g_activities, g_delivered, g_last_check_timestamp,
                   g_current_timestamp, g_feed, g_message, g_notified, mainvars,
                   rsvars>>

NextGsa ==
    \/ Tick
    \/ GsaOccur
    \/ GsaStart
    \/ GsaReadClock
    \/ GsaFetch
    \/ GsaNotify
    \/ GsaWake
    \/ GsaInterrupt

SpecGsa == Init /\ [][NextGsa]_vars

\* get_user_activity succeeds and returns the wallet's activity (line 156).
GsaFeedPoll == GsaPoll(g_feed)

\* What the monitor does by itself when every fetch succeeds.
GsaFeedStep == GsaStart \/ GsaReadClock \/ GsaFeedPoll \/ GsaNotify \/ GsaWake

NextGsaFeed ==
    \/ Tick
    \/ GsaOccur
    \/ GsaStart
    \/ GsaReadClock
    \/ GsaFeedPoll
    \/ GsaNotify
    \/ GsaWake

\* The monitor, never interrupted, on an event loop that runs it whenever
\* it is ready and ends every sleep, with an endpoint that answers every
\* poll with all the activity of the wallet.  Nothing is assumed of when
\* activities occur or of how fast the clock advances.
SpecGsaFeed == Init /\ [][NextGsaFeed]_vars /\ WF_vars(GsaFeedStep)

\* What the monitor does by itself, whatever the endpoint answers.
GsaLoopStep == GsaStart \/ GsaReadClock \/ GsaFetchAny \/ GsaNotify \/ GsaWake

NextGsaLoop ==
    \/ Tick
    \/ GsaStart
    \/ GsaReadClock
    \/ GsaFetchAny
    \/ GsaNotify
    \/ GsaWake
    \/ GsaInterrupt

\* The monitor on an event loop that runs it whenever it is ready and ends
\* every sleep.  The interrupt may never come.
SpecGsaLoop == Init /\ [][NextGsaLoop]_vars /\ WF_vars(GsaLoopStep)

\* ------------------------- get_specific_activity.py: tags and market filter
\* main(): the configured tags (line 245); resolution is also tried on
\* shorter lists and on the other order.
TagIds == {"82", "306"}

\* conditionId of a market or of an activity; "" stands for a missing,
\* null or empty one (all falsy at line 250).
NoCond == ""
MarketCondIds == {"a", "b", NoCond}
ActivityCondIds == {"a", "b", "c"}

\* A market as the markets endpoint returns it.
Markets == [question : {"q"}, conditionId : MarketCondIds]

\* Outcome of the request for one tag (lines 29-38): a RequestException,
\* or the decoded list of markets.
TagOutcomes ==
    {[ok |-> FALSE, markets |-> <<>>]}
        \cup {[ok |-> TRUE, markets |-> m] : m \in AllSeqs(Markets, MaxMarkets)}

\* Outcome of the request of get_user_activity (lines 78-80).
ActivityOutcomes ==
    {[ok |-> FALSE, body |-> <<>>]}
        \cup {[ok |-> TRUE, body |-> b] :
                  b \in AllSeqs([conditionId : ActivityCondIds], MaxFetch)}

\* The dictionary appended for one market (lines 42-46).
BuildMarket(market, tag_id) ==
    [question |-> market.question, condition_id |-> market.conditionId,
     tag_id |-> tag_id]

RECURSIVE BuildMarkets(_, _)
\* The inner for loop (lines 41-46) over the markets of one tag.
BuildMarkets(markets, tag_id) ==
    IF markets = <<>> THEN <<>>
    ELSE <<BuildMarket(Head(markets), tag_id)>> \o BuildMarkets(Tail(markets), tag_id)

\* Variant of NextTag: a failed request ends the loop over the tags.
NextTagBreak(i, n) == n

\* `continue` (line 55): the for loop goes on with the tag after tag i.
NextTag(i, n) == i + 1

RECURSIVE ConditionIds(_)
\* Line 250: the condition ids of the markets that have one.
ConditionIds(markets) ==
    IF markets = <<>> THEN <<>>
    ELSE (IF Head(markets).condition_id # NoCond
          THEN <<Head(markets).condition_id>> ELSE <<>>)
         \o ConditionIds(Tail(markets))

\* get_user_activity of get_specific_activity.py (lines 60-92): [] on a
\* RequestException; else the decoded list, filtered when
\* `if market_condition_ids:` holds (line 83).
GsaGetUserActivity(o, ids) ==
    IF ~o.ok THEN <<>>
    ELSE IF ids # <<>>
         THEN SelectSeq(o.body, LAMBDA a : a.conditionId \in Range(ids))
         ELSE o.body

InitResolve ==
    /\ InitCommon
    /\ DetectOff
    /\ GsaInit
    /\ tag_ids \in SeqsUpTo(TagIds, Cardinality(TagIds))
    /\ rs_pc = "tags"
    /\ rs_i = 0
    /\ rs_outcomes = <<>>
    /\ all_markets = <<>>
    /\ market_condition_ids = <<>>
    /\ rs_fetch = [ok |-> FALSE, body |-> <<>>]
    /\ rs_out = <<>>

\* One pass of the for loop of get_markets_by_tags (lines 25-55).
QueryTag ==
    /\ rs_pc = "tags"
    /\ rs_i < Len(tag_ids)
    /\ \E o \in TagOutcomes :
          /\ rs_outcomes' = Append(rs_outcomes, o)
          /\ IF o.ok
             THEN /\ all_markets' = all_markets \o BuildMarkets(o.markets, tag_ids[rs_i + 1])
                  /\ rs_i' = rs_i + 1
             ELSE /\ all_markets' = all_markets
                  /\ rs_i' = NextTag(rs_i, Len(tag_ids))
    /\ UNCHANGED <<tag_ids, rs_pc, market_condition_ids, rs_fetch, rs_out,
                   mainvars, gsavars>>

\* The for loop is exhausted: all_markets is returned (line 57) and main()
\* extracts the filter list (lines 247-250).
TagsDone ==
    /\ rs_pc = "tags"
    /\ rs_i >= Len(tag_ids)
    /\ rs_pc' = "fetch"
    /\ market_condition_ids' = ConditionIds(all_markets)
    /\ UNCHANGED <<tag_ids, rs_i, rs_outcomes, all_markets, rs_fetch, rs_out,
                   mainvars, gsavars>>

\* The monitor calls get_user_activity with the filter list (line 156).
FilteredFetch ==
    /\ rs_pc = "fetch"
    /\ rs_pc' = "done"
    /\ \E o \in ActivityOutcomes :
          /\ rs_fetch' = o
          /\ rs_out' = GsaGetUserActivity(o, market_condition_ids)
    /\ UNCHANGED <<tag_ids, rs_i, rs_outcomes, all_markets, market_condition_ids,
                   mainvars, gsavars>>

NextResolve ==
    \/ QueryTag
    \/ TagsDone
    \/ FilteredFetch

SpecResolve == InitResolve /\ [][NextResolve]_vars

\* ------------------------------------------------------------------ claims
Max(a, b) == IF a >= b THEN a ELSE b

RECURSIVE MaxTsFrom(_, _)
\* The largest of W and the integer timestamps of the records of q.
MaxTsFrom(W, q) ==
    IF q = <<>> THEN W
    ELSE MaxTsFrom(Max(W, TsInt(q[1].timestamp)), Tail(q))

\* Section 4.3, step 1: the timestamp can be coerced to an integer.
Coercible(t) ==
    CASE t.k = "none" -> FALSE
      [] t.k = "int" -> TRUE
      [] t.k = "str" -> IsIntLiteral(t.s)

\* Section 4.3, steps 1 and 2: the record is new with respect to W.
SpecNew(W, r) == Coercible(r.timestamp) /\ TsInt(r.timestamp) > W

\* C1: the records the filter keeps are exactly the fetched records whose
\* timestamp is coercible to an integer and strictly greater than the
\* watermark, in the order fetched.
C1_DetectExact ==
    det_phase = "done" =>
        det_new = SelectSeq(det_R, LAMBDA r : SpecNew(det_W, r))

\* Wallet w's task takes this step.
Acting(w) == running = w \/ running' = w

\* C2: the watermark of a wallet never decreases; a cycle that ends leaves
\* it at max(previous watermark, timestamps of the cycle's new records),
\* which is the previous watermark when no record is new or the fetch is
\* empty; a poll by itself never changes it.
C2_WatermarkMonotone ==
    [][\A w \in Wallets :
        /\ last_check_timestamp'[w] >= last_check_timestamp[w]
        /\ pc[w] = "poll" => last_check_timestamp'[w] = last_check_timestamp[w]
        /\ (pc[w] \in {"poll", "notify"} /\ pc'[w] = "sleep") =>
              /\ last_check_timestamp'[w] =
                     MaxTsFrom(last_check_timestamp[w], new_activities[w])
              /\ last_check_timestamp'[w] =
                     MaxTsFrom(last_check_timestamp[w],
                               SelectSeq(activities[w],
                                         LAMBDA r : SpecNew(last_check_timestamp[w], r)))
      ]_vars

\* C2 witness: a cycle is about to commit with the watermark already at 2
\* and only an older record among its new_activities.
C2_Witness ==
    \E w \in Wallets :
        /\ pc[w] = "notify"
        /\ LoopDone(new_activities[w], idx[w])
        /\ last_check_timestamp[w] = 2
        /\ new_activities[w] = <<[timestamp |-> IntTs(1)]>>

\* C3: a record handed to the notifier in one cycle is not handed to it
\* again in a later cycle of the same wallet.
C3_NoRefire ==
    \A w \in Wallets :
        \A i \in 1..Len(attempted[w]) : attempted[w][i] \notin notified[w]

\* C3, for get_specific_activity.py: a record listed in the notification
\* of one cycle is not listed again in the notification of a later cycle.
C3_NoRefireGsa == Range(g_message) \cap g_notified = {}

\* C4: a wallet loop never dies in a cycle whose fetch failed or was empty
\* (get_user_activity returned []).
C4_EmptyPollNeverKills ==
    \A w \in Wallets : pc[w] = "dead" => activities[w] # <<>>

\* C5: a wallet loop is never ended by what happens in a sibling loop: it
\* is cancelled only when the whole run is interrupted from outside.
C5_SiblingUnaffected ==
    \A w \in Wallets : pc[w] = "cancelled" => main_state = "interrupted"

\* C6: whatever the sends return, the records of new_activities get one
\* delivery attempt each, in feed order and without retry; a failed send
\* never ends the loop; and the timestamp to be committed covers every
\* attempted record, failed or not.
C6_DeliveryFailureNonFatal ==
    \A w \in Wallets :
        /\ pc[w] = "notify" =>
              /\ idx[w] <= Len(new_activities[w])
              /\ attempted[w] = SubSeq(new_activities[w], 1, idx[w])
              /\ failures[w] <= idx[w]
              /\ latest_activity_timestamp[w] =
                     MaxTsFrom(last_check_timestamp[w], attempted[w])
              /\ LoopDone(new_activities[w], idx[w]) =>
                     attempted[w] = new_activities[w]
        /\ pc[w] = "dead" => attempted[w] = <<>>

\* C6 witness: a cycle with two new records is about to commit after one
\* send failed and one succeeded.
C6_Witness ==
    \E w \in Wallets :
        /\ pc[w] = "notify"
        /\ Len(new_activities[w]) = 2
        /\ LoopDone(new_activities[w], idx[w])
        /\ failures[w] = 1

\* C7: the watermark is assigned only when every record of new_activities
\* has had its delivery attempt; while records are pending it keeps the
\* value it had when the cycle began.
C7_CommitAfterNotify ==
    [][\A w \in Wallets :
        /\ last_check_timestamp'[w] # last_check_timestamp[w] =>
              /\ pc[w] = "notify"
              /\ attempted[w] = new_activities[w]
        /\ (pc[w] = "notify" /\ attempted[w] # new_activities[w]) =>
              last_check_timestamp'[w] = last_check_timestamp[w]
      ]_vars

\* C7 witness: in the middle of a cycle the first record was attempted, a
\* newer record is pending and the watermark is still below both.
C7_Witness ==
    \E w \in Wallets :
        /\ pc[w] = "notify"
        /\ idx[w] = 1
        /\ Len(new_activities[w]) = 2
        /\ SpecNew(last_check_timestamp[w], new_activities[w][1])
        /\ SpecNew(last_check_timestamp[w], new_activities[w][2])

\* C8: a record whose timestamp is missing or not coercible is never
\* handed to the notifier, and a cycle that fetched such a record never
\* raises.
C8_MalformedDropped ==
    \A w \in Wallets :
        /\ \A i \in 1..Len(attempted[w]) : Coercible(attempted[w][i].timestamp)
        /\ pc[w] = "dead" =>
              \A i \in 1..Len(activities[w]) : Coercible(activities[w][i].timestamp)

\* C10: a step of one wallet's task leaves the watermark of every other
\* wallet unchanged.
C10_WatermarkIsolation ==
    [][\A w \in Wallets :
        Acting(w) =>
            \A v \in Wallets \ {w} :
                last_check_timestamp'[v] = last_check_timestamp[v]
      ]_vars

\* C10 witness: both loops have advanced, to different watermarks, and the
\* second is about to commit again.
C10_Witness ==
    /\ last_check_timestamp[1] = 2
    /\ last_check_timestamp[2] = 1
    /\ pc[2] = "notify"
    /\ LoopDone(new_activities[2], idx[2])
    /\ latest_activity_timestamp[2] = 2

\* C9: every activity that occurs on a wallet after its monitor started is
\* eventually handed to the notifier, as long as the wallet's loop is
\* running (a loop that raised or was cancelled is not held to it).
C9_AtLeastOnce ==
    \A w \in Wallets : \A i \in 1..MaxFeed :
        (pc[w] # "start" /\ i > backlog[w] /\ i <= Len(feed[w]))
            ~> \/ pc[w] \in {"dead", "cancelled"}
               \/ /\ i <= Len(feed[w])
                  /\ feed[w][i] \in notified[w] \cup Range(attempted[w])

\* C11: the await on gather neither returns nor raises while a wallet loop
\* is still running: when main() leaves the gather with a failure, every
\* wallet loop has already ended.
C11_GatherWaitsForAll ==
    [][(main_state = "gather" /\ main_state' = "failed") =>
          \A w \in Wallets : pc[w] \notin Live
      ]_vars

\* C12: an interrupted run ends with exit code 0; a run that ends with a
\* failure does so because a wallet loop raised, and with a non-zero exit
\* code; and once a wallet loop has raised the process does not keep
\* running: the run ends, as a fatal error unless it is interrupted first.
C12_ProcessOutcome ==
    /\ [](main_state = "interrupted" => ExitCode(main_state) = 0)
    /\ [](main_state = "failed" =>
             /\ ExitCode(main_state) # 0
             /\ \E w \in Wallets : pc[w] = "dead")
    /\ \A w \in Wallets :
          (pc[w] = "dead") ~> (main_state \in {"failed", "interrupted"})

\* C12 witness: the run ended as a fatal error after a wallet loop raised
\* and its sibling, which had completed a cycle, was cancelled.
C12_Witness ==
    /\ main_state = "failed"
    /\ pc[1] = "dead"
    /\ pc[2] = "cancelled"
    /\ last_check_timestamp[2] > 0

\* C13: in get_specific_activity.py a cycle leaves the watermark at
\* max(previous watermark, timestamps of the cycle's new records): at the
\* previous watermark when no record is new or the fetch is empty, and in
\* any case at a value that depends on the previous watermark and the
\* fetched records only.
C13_GsaWatermarkRule ==
    [][(g_pc \in {"fetch", "notify"} /\ g_pc' = "sleep") =>
          g_last_check_timestamp' = MaxTsFrom(g_last_check_timestamp, g_message')
      ]_vars

\* C14: the records the filter of get_specific_activity.py keeps are
\* exactly the fetched records whose timestamp is coercible to an integer
\* and strictly greater than the watermark, in the order fetched; records
\* with a missing or non-coercible timestamp are dropped.
C14_GsaDetectExact ==
    det_phase = "gsa_done" =>
        /\ det_new = SelectSeq(det_R, LAMBDA r : SpecNew(det_W, r))
        /\ \A i \in 1..Len(det_new) : Coercible(det_new[i].timestamp)

\* C14 witness: the filter has run on a record without a number, a record
\* at the watermark and a newer record given as a string, and kept the last.
C14_Witness ==
    /\ det_phase = "gsa_done"
    /\ det_W = 1
    /\ det_R = <<[timestamp |-> StrTs(<<"x">>)], [timestamp |-> IntTs(1)],
                 [timestamp |-> StrTs(<<"3">>)]>>
    /\ det_new = <<[timestamp |-> StrTs(<<"3">>)]>>

\* C15: what get_user_activity returns for a fetched list and the filter
\* list main() supplies, the empty one included, is the fetched records
\* whose conditionId is in the filter list, in feed order.
C15_MarketFilter ==
    (rs_pc = "done" /\ rs_fetch.ok) =>
        rs_out = SelectSeq(rs_fetch.body,
                           LAMBDA a : a.conditionId \in Range(market_condition_ids))

\* Position of a tag in tag_ids.
TagIndex(t) == CHOOSE k \in 1..Len(tag_ids) : tag_ids[k] = t

\* C16: get_markets_by_tags queries every tag whatever requests failed,
\* and all_markets holds, in tag order, the markets of exactly the tags
\* whose request succeeded, each in the order the endpoint gave them.
C16_PartialFailure ==
    /\ rs_i = Len(rs_outcomes)
    /\ rs_i <= Len(tag_ids)
    /\ rs_pc \in {"fetch", "done"} => rs_i = Len(tag_ids)
    /\ \A k \in 1..Len(tag_ids) :
          SelectSeq(all_markets, LAMBDA m : m.tag_id = tag_ids[k]) =
              IF k <= Len(rs_outcomes) /\ rs_outcomes[k].ok
              THEN [j \in 1..Len(rs_outcomes[k].markets) |->
                       [question |-> rs_outcomes[k].markets[j].question,
                        condition_id |-> rs_outcomes[k].markets[j].conditionId,
                        tag_id |-> tag_ids[k]]]
              ELSE <<>>
    /\ \A a \in 1..Len(all_markets) : \A b \in 1..Len(all_markets) :
          a < b => TagIndex(all_markets[a].tag_id) <= TagIndex(all_markets[b].tag_id)

\* C16 witness: the request of the first tag failed, the request of the
\* second succeeded, and the call returned the markets of the second.
C16_Witness ==
    /\ rs_pc = "fetch"
    /\ Len(tag_ids) = 2
    /\ ~rs_outcomes[1].ok
    /\ rs_outcomes[2].ok
    /\ Len(all_markets) = 2

\* The largest element of a non-empty set of integers.
MaxOf(S) == CHOOSE x \in S : \A y \in S : y <= x

\* C17: while a wallet loop is suspended in its sleep (or was cancelled
\* there), its watermark is the largest of 0 and the timestamps of all the
\* records it has handed to the notifier so far.
C17_SleepPointConsistent ==
    \A w \in Wallets :
        pc[w] \in {"sleep", "cancelled"} =>
            last_check_timestamp[w] =
                MaxOf({0} \cup {TsInt(r.timestamp) : r \in notified[w]})

\* C17 witness: a loop sleeps after it has attempted a record above and,
\* in a later cycle, a record below its watermark.
C17_Witness ==
    \E w \in Wallets :
        /\ pc[w] = "sleep"
        /\ last_check_timestamp[w] = 2
        /\ notified[w] = {[timestamp |-> IntTs(2)], [timestamp |-> IntTs(1)]}

\* A wallet's task is between its fetch and the commit of its watermark.
MidCycle(w) == pc[w] \in {"poll", "notify"}

\* C18: while a wallet's task is between its fetch and its commit it is
\* the task the event loop runs, and no step changes anything of another
\* wallet's task.
C18_CycleAtomic ==
    [][\A w \in Wallets :
        MidCycle(w) =>
            /\ running = w
            /\ \A v \in Wallets \ {w} :
                  /\ ~MidCycle(v)
                  /\ pc'[v] = pc[v]
                  /\ last_check_timestamp'[v] = last_check_timestamp[v]
                  /\ notified'[v] = notified[v]
                  /\ attempted'[v] = attempted[v]
                  /\ activity_name_bound'[v] = activity_name_bound[v]
      ]_vars

\* C18 witness: one task is inside its notify loop, one record sent and
\* one to go, while its sibling sleeps after a cycle of its own.
C18_Witness ==
    /\ pc[1] = "notify"
    /\ idx[1] = 1
    /\ Len(new_activities[1]) = 2
    /\ pc[2] = "sleep"
    /\ last_check_timestamp[2] > 0

\* The monitor of get_specific_activity.py is polling: it reads the clock
\* or fetches.
GsaPolling == g_pc \in {"clock", "fetch"}

\* The transitions of the loop between polling, notifying and sleeping.
GsaTransitions ==
    /\ (g_pc = "fetch" /\ g_pc' # "fetch") =>
          g_pc' = IF g_activities' = <<>> THEN "sleep" ELSE "notify"
    /\ (g_pc = "notify" /\ g_pc' # "notify") => g_pc' = "sleep"
    /\ (g_pc = "sleep" /\ g_pc' # "sleep") => g_pc' \in {"clock", "cancelled"}
    /\ (g_pc = "clock" /\ g_pc' # "clock") => g_pc' = "fetch"

\* C19: the loop of get_specific_activity.py has no terminal state.  A
\* poll goes straight to the sleep when the fetched list is empty (or the
\* fetch failed) and into the notifying branch otherwise, which ends in
\* the sleep whatever the records and whatever the send returns; the
\* sleep is left for the next poll or by cancellation; and the loop polls
\* again and again unless it is cancelled.
C19_GsaNoTerminalState ==
    /\ [][GsaTransitions]_vars
    /\ [](g_pc # "dead")
    /\ ([]<>(g_pc = "fetch") \/ <>(g_pc = "cancelled"))

\* C19 witness: a cycle ended in the sleep after a list with a record that
\* has no number for a timestamp and a new record was fetched, and the
\* send of the notification failed.
C19_Witness ==
    /\ g_pc = "sleep"
    /\ \E i \in 1..Len(g_activities) : ~Coercible(g_activities[i].timestamp)
    /\ g_message # <<>>
    /\ g_delivered = "failed"

\* C20: every record listed in a notification of get_specific_activity.py
\* has a timestamp strictly greater than the time the monitor started,
\* and the watermark starts at that time and never falls below it.
C20_GsaStartClean ==
    g_pc # "start" =>
        /\ g_last_check_timestamp >= g_start
        /\ \A r \in Range(g_message) \cup g_notified : TsInt(r.timestamp) > g_start

\* C20 witness: the wallet had an activity before the monitor started and
\* one after; a notification has listed the later one alone.
C20_Witness ==
    /\ Len(g_feed) = 2
    /\ TsInt(g_feed[1].timestamp) <= g_start
    /\ g_pc = "sleep"
    /\ g_message = <<g_feed[2]>>
    /\ g_activities = g_feed

\* C21: every activity of the wallet with a timestamp strictly after the
\* start of the monitor of get_specific_activity.py, returned by every
\* poll from its occurrence on, is eventually listed in a notification
\* (stated for the activities that occur before the last second of the
\* clock, so that time can still pass after them).
C21_GsaNoMissedRecord ==
    \A i \in 1..MaxFeed :
        (/\ g_pc # "start"
         /\ i <= Len(g_feed)
         /\ TsInt(g_feed[i].timestamp) > g_start
         /\ TsInt(g_feed[i].timestamp) < MaxClock)
            ~> (i <= Len(g_feed) /\ g_feed[i] \in Range(g_message) \cup g_notified)

====
